---------------------------- MODULE Spec2Model ----------------------------
(***************************************************************************)
(* A model of mnimi's layered sampling/caching subsystem (cached_llm.py):  *)
(* the buffered model (_BaseBufferedModel), the Independent wrapper, the   *)
(* cache base (_BaseBatchedCache) and its two stores, Repeatable (a dict)  *)
(* and Persistent (numbered files).                                        *)
(*                                                                         *)
(* Python objects live in two heaps: objs (Model objects) and iters        *)
(* (iterator objects); a reference is an index into its heap, 0 is None.   *)
(* A method is an operator that takes the program state s (a record of     *)
(* the heaps, the file system and the transport) and returns the new       *)
(* state with the method's result.                                         *)
(***************************************************************************)
EXTENDS Integers, Sequences, FiniteSets, TLC

\* ------------------------------------------------------------- bounds
\* Completions one transport delivers for a prompt before the model stops.
MaxStream == 2
\* Completions the transport of a model sampled without a cache delivers.
MaxDelivered == 5

\* The largest attempt count query_retry is called with.
MaxRetries == 3

Prompts == {"p"}
FramePrompts == {"p", "q"}
\* The batch hints the caller passes and the max_batch of the models it builds
Hints == {1, 2}
MaxBatches == {2}
\* The same, for a model sampled without a cache
WideHints == {1, 2, 3, 4}
WideMaxBatches == {1, 2, 3}
\* The number of values an earlier run recorded under a root
RecordedCounts == {0, 2}

VARIABLES
    objs,       \* the Model objects (heap)
    iters,      \* the iterator objects (heap)
    disk,       \* the file system: directory -> (file index -> text)
    transport,  \* per model object and prompt: completions delivered so far
    cfg,        \* the program: which objects it built and which of them the caller uses
    handles,    \* the iterators the caller holds a reference to
    hist,       \* history: per cache and prompt, the value first returned at each position
    fetched,    \* history: per cache and prompt, the fresh values fetched from the inner model
    requested,  \* history: per cache and prompt, the number of distinct positions requested
    last        \* history: what the last call did and returned

vars == <<objs, iters, disk, transport, cfg, handles, hist, fetched, requested, last>>

\* ------------------------------------------------------------ helpers
Max(a, b) == IF a >= b THEN a ELSE b

\* math.ceil(a / b) for a >= 0, b >= 1
Ceil(a, b) == (a + b - 1) \div b

\* dict update d[k] = v
Put(d, k, v) == [x \in DOMAIN d \cup {k} |-> IF x = k THEN v ELSE d[x]]

\* dict.get(k, default)
Get(d, k, default) == IF k \in DOMAIN d THEN d[k] ELSE default

EmptyDict == [x \in {} |-> 0]

\* hashlib.sha256(prompt).hexdigest(): distinct prompts get distinct digests
prompt_idOfNothing(prompt) == <<"sha256", "">>
prompt_id(prompt) == <<"sha256", prompt>>

\* ------------------------------------------------------- constructors
\* Model.__init__ : the identity every Model carries
ModelObj(kind, model_name, temperature, alias, max_batch) ==
    [kind |-> kind, model_name |-> model_name, temperature |-> temperature,
     alias |-> alias, max_batch |-> max_batch,
     inner |-> 0, inner_iters |-> EmptyDict, fail_on_miss |-> FALSE,
     cache |-> EmptyDict, cache_root |-> "", responses |-> ""]

\* A _BaseBufferedModel subclass; kind "HTTP" is an OpenAICompatibleHTTPModel
\* (or FireworksAI, AI302, CloseAI, XMCP), kind "Buffered" any other subclass.
\* responses names the stream of completions its transport delivers.
NewBuffered(s, kind, responses, max_batch) ==
    [s EXCEPT !.objs = Append(@,
        [ModelObj(kind, "mock", "1.0", "mock", max_batch) EXCEPT !.responses = responses])]

\* Independent.__init__
NewIndependent(s, inner) ==
    LET m == s.objs[inner] IN
    [s EXCEPT !.objs = Append(@,
        [ModelObj("Independent", m.model_name, m.temperature, m.alias, m.max_batch)
            EXCEPT !.inner = inner])]

\* _BaseBatchedCache.__init__ : the cache holds Independent(inner), not inner
NewCache(s, kind, inner, fail_on_miss) ==
    LET m  == s.objs[inner]
        s1 == NewIndependent(s, inner)
    IN  [s1 EXCEPT !.objs = Append(@,
            [ModelObj(kind, m.model_name, m.temperature, m.alias, m.max_batch)
                EXCEPT !.inner = Len(s1.objs), !.fail_on_miss = fail_on_miss])]

\* Repeatable.__init__
NewRepeatable(s, inner) == NewCache(s, "Repeatable", inner, FALSE)

\* Persistent.__init__
NewPersistent(s, inner, cache_root, replication) ==
    LET s1 == NewCache(s, "Persistent", inner, replication)
    IN  [s1 EXCEPT !.objs[Len(s1.objs)].cache_root = cache_root]

\* ----------------------------------------------------- buffered model
\* A text is a completion (which stream, which prompt, which place in the stream)
\* and the line ending it uses: "LF" for "\n" alone, "CRLF" when it holds "\r\n".
Text(src, prompt, k, nl) == [src |-> src, prompt |-> prompt, k |-> k, nl |-> nl]

\* The transport behind _query: the k-th completion it delivers for a prompt;
\* every second completion of a stream uses "\r\n"
Completion(responses, prompt, k) ==
    Text(responses, prompt, k, IF k % 2 = 0 THEN "CRLF" ELSE "LF")

\* _BaseBufferedModel._query(prompt, n): one round trip for n new completions
Query(s, o, prompt, n) ==
    LET d == s.transport[o][prompt] IN
    [s   |-> [s EXCEPT !.transport[o][prompt] = d + n,
                       !.queries = Append(@, [model |-> o, n |-> n, ok |-> TRUE])],
     out |-> [k \in 1..n |-> Completion(s.objs[o].responses, prompt, d + k)]]

\* _query(prompt, n) raises: the transport does not answer
QueryFailedRetried(s, o, n) ==
    [s EXCEPT !.queries = @ \o <<[model |-> o, n |-> n, ok |-> FALSE],
                                  [model |-> o, n |-> n, ok |-> FALSE]>>]
QueryFailed(s, o, n) ==
    [s EXCEPT !.queries = Append(@, [model |-> o, n |-> n, ok |-> FALSE])]

\* A _query call in the list raised
Failed(queries) == \E k \in 1..Len(queries) : ~queries[k].ok

\* The batch size _BufferedIterator.set_batch_size(n) computes
BatchesFloor(n, max_batch) == Max(1, n \div max_batch)
Batches(n, max_batch) == Max(1, Ceil(n, max_batch))
BatchSize(n, max_batch) == Ceil(n, Batches(n, max_batch))

\* self._buffer.extend(responses)
ExtendFirst(buffer, responses) == buffer \o <<Head(responses)>>
Extend(buffer, responses) == buffer \o responses

\* _BufferedIterator.__next__
BufferedNext(s, it, ok) ==
    LET i == s.iters[it] IN
    IF Len(i.buffer) = 0
    THEN IF ~ok
         THEN [s   |-> QueryFailed(s, i.base, i.batch_size),
               res |-> [tag |-> "TransportError", v |-> <<>>]]
         ELSE LET q == Query(s, i.base, i.prompt, i.batch_size)
                  b == Extend(i.buffer, q.out)
              IN  [s   |-> [q.s EXCEPT !.iters[it].buffer = Tail(b)],
                   res |-> [tag |-> "ok", v |-> Head(b)]]
    ELSE [s   |-> [s EXCEPT !.iters[it].buffer = Tail(@)],
          res |-> [tag |-> "ok", v |-> Head(i.buffer)]]

\* set_batch_size of either iterator class
set_batch_size(s, it, n) ==
    LET i == s.iters[it] IN
    IF i.kind = "buffered"
    THEN [s EXCEPT !.iters[it].batch_size = BatchSize(n, s.objs[i.base].max_batch)]
    ELSE [s EXCEPT !.iters[it].batch_size = n]

IterObj(kind, base, prompt) ==
    [kind |-> kind, base |-> base, prompt |-> prompt, buffer |-> <<>>,
     batch_size |-> 1, current_index |-> 0]

\* _BaseBufferedModel.sample
BufferedSample(s, o, prompt, batch) ==
    LET s1 == [s EXCEPT !.iters = Append(@, IterObj("buffered", o, prompt))]
        it == Len(s1.iters)
    IN  [s |-> set_batch_size(s1, it, batch), it |-> it]


\* ------------------------------------------------------------- stores
\* Repeatable._store
RepeatableStore(s, o, pid, response) ==
    LET c  == s.objs[o].cache
        c1 == IF pid \notin DOMAIN c THEN Put(c, pid, <<>>) ELSE c
    IN  [s EXCEPT !.objs[o].cache = Put(c1, pid, Append(c1[pid], response))]

\* Repeatable._load
RepeatableLoad(s, o, pid) == Get(s.objs[o].cache, pid, <<>>)

\* f"{self.temperature:.3f}".rstrip("0").rstrip("."), for the temperatures used
format_temperature(t) == IF t = "1.0" THEN "1" ELSE t

\* Persistent._prompt_dir : <cache_root>/<alias>_<temperature>/<prompt_hash>
prompt_dir(s, o, pid) ==
    <<s.objs[o].cache_root, <<s.objs[o].alias, format_temperature(s.objs[o].temperature)>>, pid>>

\* sorted(md_files, key=lambda f: int(f.stem)), as the list of the stems
RECURSIVE SortedStems(_)
SortedStems(S) ==
    IF S = {} THEN <<>>
    ELSE LET m == CHOOSE x \in S : \A y \in S : x <= y
         IN  <<m>> \o SortedStems(S \ {m})

\* Persistent._list_numbered_files
list_numbered_files(s, d) ==
    IF d \notin DOMAIN s.disk THEN <<>> ELSE SortedStems(DOMAIN s.disk[d])

\* The file name Persistent._store writes: the number of the numbered files
NextFreeIndexSkip(files) == Len(files) + 1
NextFreeIndexZero(files) == 0
NextFreeIndexStale(files) == IF Len(files) = 0 THEN 0 ELSE Len(files) - 1
NextFreeIndex(files) == Len(files)

\* f.write_text(response): text mode, newline=None; on POSIX "\n" is written as
\* it is and so is "\r\n"
write_text(response) == response

\* f.read_text(): text mode, newline=None (universal newlines); "\r\n" and "\r"
\* are read as "\n"
read_text(content) == [content EXCEPT !.nl = "LF"]

\* Persistent._store up to "i = len(...)": the directory made, the files counted
StoreCount(s, o, pid) ==
    LET d  == prompt_dir(s, o, pid)
        s1 == IF d \in DOMAIN s.disk THEN s ELSE [s EXCEPT !.disk = Put(@, d, EmptyDict)]
    IN  [s |-> s1, i |-> NextFreeIndex(list_numbered_files(s1, d))]

\* Persistent._store from there: file <i>.md written
StoreWrite(s, o, pid, i, response) ==
    LET d == prompt_dir(s, o, pid)
    IN  [s EXCEPT !.disk = Put(@, d, Put(s.disk[d], i, write_text(response)))]

\* Persistent._store
PersistentStore(s, o, pid, response) ==
    LET c == StoreCount(s, o, pid)
    IN  StoreWrite(c.s, o, pid, c.i, response)

\* Persistent._load
PersistentLoad(s, o, pid) ==
    LET d  == prompt_dir(s, o, pid)
        fs == list_numbered_files(s, d)
    IN  [k \in 1..Len(fs) |-> read_text(s.disk[d][fs[k]])]

\* self.base._store / self.base._load of a cache object
Store(s, o, pid, response) ==
    IF s.objs[o].kind = "Repeatable" THEN RepeatableStore(s, o, pid, response)
    ELSE PersistentStore(s, o, pid, response)

Load(s, o, pid) ==
    IF s.objs[o].kind = "Repeatable" THEN RepeatableLoad(s, o, pid)
    ELSE PersistentLoad(s, o, pid)

\* -------------------------------------------------------------- sample
\* _BaseBatchedCache.sample : a new cursor at position 0
CacheSample(s, o, prompt, batch) ==
    LET s1 == [s EXCEPT !.iters = Append(@, IterObj("shared", o, prompt))]
        it == Len(s1.iters)
    IN  [s |-> set_batch_size(s1, it, batch), it |-> it]

\* The isinstance test of Independent.sample: the inner models it passes through
PassesThroughAll(m) == TRUE
PassesThrough(m) == m.kind \in {"Independent", "HTTP"}

\* The isinstance test of Repeatable.sample, on the cache's own _inner
Collapses(m) == m.kind \in {"Repeatable", "Persistent"}

\* The test "prompt not in self._inner_iters" of Independent.sample
RememberedNever(inner_iters, pid) == FALSE
Remembered(inner_iters, pid) == pid \in DOMAIN inner_iters

RECURSIVE SampleOp(_, _, _, _)

\* Independent.sample
IndependentSample(s, o, prompt, batch) ==
    LET inner == s.objs[o].inner
        pid   == prompt_id(prompt)
    IN  IF PassesThrough(s.objs[inner])
        THEN SampleOp(s, inner, prompt, batch)
        ELSE LET r  == IF ~Remembered(s.objs[o].inner_iters, pid)
                       THEN LET r0 == SampleOp(s, inner, prompt, batch)
                            IN  [r0 EXCEPT !.s.objs[o].inner_iters = Put(@, pid, r0.it)]
                       ELSE [s |-> s, it |-> s.objs[o].inner_iters[pid]]
             IN  [s |-> set_batch_size(r.s, r.it, batch), it |-> r.it]

\* Repeatable.sample
RepeatableSample(s, o, prompt, batch) ==
    IF Collapses(s.objs[s.objs[o].inner])
    THEN SampleOp(s, s.objs[o].inner, prompt, batch)
    ELSE CacheSample(s, o, prompt, batch)

\* model.sample(prompt, batch), dispatched on the class of the object
SampleOp(s, o, prompt, batch) ==
    LET k  == s.objs[o].kind
        s1 == [s EXCEPT !.sampled = Append(@, o)]
    IN  CASE k \in {"Buffered", "HTTP"} -> BufferedSample(s1, o, prompt, batch)
          [] k = "Independent"          -> IndependentSample(s1, o, prompt, batch)
          [] k = "Repeatable"           -> RepeatableSample(s1, o, prompt, batch)
          [] k = "Persistent"           -> CacheSample(s1, o, prompt, batch)

\* ------------------------------------------------------------ __next__
Ok(v) == [tag |-> "ok", v |-> v]
CacheMiss == [tag |-> "ReplicationCacheMiss", v |-> <<>>]

\* history: a pull at position pos of cache o was attempted
NoteRequested(s, o, prompt, pos) ==
    [s EXCEPT !.requested[o][prompt] = Max(@, pos + 1)]

\* history: a pull at position pos of cache o returned v
NoteReturned(s, o, prompt, pos, v) ==
    [s EXCEPT !.hist[o][prompt] = IF pos < Len(@) THEN @ ELSE Append(@, v),
              !.returns = Append(@, [cache |-> o, prompt |-> prompt, pos |-> pos, v |-> v])]

RECURSIVE NextOp(_, _, _)
RECURSIVE SharedFetch(_, _, _)

\* The test "if len(cache) > self.current_index" of _SharedCacheIterator.__next__
HitBeyond(cache, index) == Len(cache) > index + 1
Hit(cache, index) == Len(cache) > index

\* The replayed value: cache[self.current_index - 1] after the increment
Replay(cache, index) == cache[index + 1]

\* The test "if self.base.fail_on_miss" of _SharedCacheIterator.__next__
FailOnMissNever(m) == FALSE
FailOnMiss(m) == m.fail_on_miss

\* _SharedCacheIterator.__next__ left by an exception (raised at line 255, or by
\* the inner pull of line 256): lines 257-259 do not run, self.current_index stays
RaiseAdvanced(s, it, res) ==
    [s |-> [s EXCEPT !.iters[it].current_index = @ + 1], res |-> res, fresh |-> FALSE]
Raise(s, it, res) == [s |-> s, res |-> res, fresh |-> FALSE]

\* _SharedCacheIterator.__next__ up to the fresh value: the replay, the miss of
\* a replication cache, the failure of the inner pull, or (fresh) the value
\* fetched from the inner model, not yet stored
SharedFetch(s, it, ok) ==
    LET i     == s.iters[it]
        base  == i.base
        pid   == prompt_id(i.prompt)
        s0    == NoteRequested(s, base, i.prompt, i.current_index)
        cache == Load(s0, base, pid)
    IN  IF Hit(cache, i.current_index)
        THEN [s   |-> NoteReturned([s0 EXCEPT !.iters[it].current_index = @ + 1],
                                   base, i.prompt, i.current_index, Replay(cache, i.current_index)),
              res |-> Ok(Replay(cache, i.current_index)), fresh |-> FALSE]
        ELSE IF FailOnMiss(s0.objs[base])
        THEN Raise(s0, it, CacheMiss)
        ELSE LET r1 == SampleOp(s0, s0.objs[base].inner, i.prompt, i.batch_size)
                 r2 == NextOp(r1.s, r1.it, ok)
             IN  IF r2.res.tag # "ok" THEN Raise(r2.s, it, r2.res)
                 ELSE [s   |-> [r2.s EXCEPT !.fetched[base][i.prompt] = Append(@, r2.res.v)],
                       res |-> r2.res, fresh |-> TRUE]

\* _SharedCacheIterator.__next__ after _store: the cursor advanced, fresh returned
SharedReturn(s, it, fresh) ==
    LET i == s.iters[it]
    IN  [s   |-> NoteReturned([s EXCEPT !.iters[it].current_index = @ + 1],
                              i.base, i.prompt, i.current_index, fresh),
         res |-> Ok(fresh)]

\* _SharedCacheIterator.__next__
SharedNext(s, it, ok) ==
    LET f == SharedFetch(s, it, ok)
    IN  IF ~f.fresh THEN [s |-> f.s, res |-> f.res]
        ELSE SharedReturn(Store(f.s, s.iters[it].base, prompt_id(s.iters[it].prompt), f.res.v),
                          it, f.res.v)

\* next(it), dispatched on the class of the iterator
NextOp(s, it, ok) ==
    IF s.iters[it].kind = "buffered" THEN BufferedNext(s, it, ok) ELSE SharedNext(s, it, ok)


\* ------------------------------------------------------------ programs
\* The state before anything is built
Blank ==
    [objs |-> <<>>, iters |-> <<>>, disk |-> EmptyDict, transport |-> <<>>,
     hist |-> <<>>, fetched |-> <<>>, requested |-> <<>>,
     queries |-> <<>>, sampled |-> <<>>, returns |-> <<>>]

\* The state once the objects are built: nothing delivered, nothing returned
StartWith(s, prompts) ==
    [s EXCEPT !.transport = [o \in 1..Len(s.objs) |-> [p \in prompts |-> 0]],
              !.hist      = [o \in 1..Len(s.objs) |-> [p \in prompts |-> <<>>]],
              !.fetched   = [o \in 1..Len(s.objs) |-> [p \in prompts |-> <<>>]],
              !.requested = [o \in 1..Len(s.objs) |-> [p \in prompts |-> 0]]]

Start(s) == StartWith(s, Prompts)

\* A root recorded by an earlier run: n files for each prompt under partition
\* mock_1, holding the completions of that run's model as it wrote them, the
\* first of them with "\r\n"
RecordedText(root, prompt, k) ==
    Text(root, prompt, k, IF k % 2 = 1 THEN "CRLF" ELSE "LF")

Recorded(s, root, n) ==
    [s EXCEPT !.disk = [d \in DOMAIN s.disk \cup {<<root, <<"mock", "1">>, prompt_id(p)>> : p \in Prompts}
        |-> IF d \in DOMAIN s.disk THEN s.disk[d]
            ELSE [k \in 0..(n - 1) |-> RecordedText(root, d[3][2], k + 1)]]]

BaseKinds == {"Buffered", "HTTP"}

\* The caller's variables that hold iterators
Names == {"s1", "s2"}

Program(s, topo, public, who, names, hints, stream, recorded) ==
    [s |-> Start(s),
     cfg |-> [topo |-> topo, public |-> public, who |-> who, names |-> names,
              hints |-> hints, stream |-> stream, recorded |-> recorded]]

\* m = a buffered model, sampled without a cache
BufferedProgram(kind, max_batch) ==
    Program(NewBuffered(Blank, kind, "m", max_batch),
            "buffered", {1}, [m |-> 1], {"s1"}, WideHints, MaxDelivered, 0)

\* c = <cache>(m), and c2 = Persistent(m, "a"), a second cache over the same root
\* (with cache = "Replicas", both built with replication=True)
SingleProgram(kind, max_batch, cache, n) ==
    LET s1 == NewBuffered(Blank, kind, "m", max_batch)
        s2 == CASE cache = "Repeatable"  -> NewRepeatable(s1, 1)
                [] cache = "Persistent"  -> NewPersistent(s1, 1, "a", FALSE)
                [] cache = "Replication" -> NewPersistent(s1, 1, "a", TRUE)
                [] cache = "Replicas"    -> NewPersistent(s1, 1, "a", TRUE)
        s3 == NewPersistent(s2, 1, "a", cache = "Replicas")
    IN  Program(IF n > 0 THEN Recorded(s3, "a", n) ELSE s3,
                "single", {3, 5}, [m |-> 1, c |-> 3, c2 |-> 5], Names, Hints, MaxStream, n)

\* o = Persistent(i, "b") over i = Persistent(m, "a"), root "a" recorded;
\* p = Persistent(m, "b"), a plain cache over o's root
NestedProgram(kind, max_batch, n) ==
    LET s1 == NewBuffered(Blank, kind, "m", max_batch)
        s2 == NewPersistent(s1, 1, "a", FALSE)
        s3 == NewPersistent(s2, 3, "b", FALSE)
        s4 == NewPersistent(s3, 1, "b", FALSE)
    IN  Program(IF n > 0 THEN Recorded(s4, "a", n) ELSE s4,
                "nested", {5, 7}, [m |-> 1, i |-> 3, o |-> 5, p |-> 7],
                Names, Hints, MaxStream, n)

\* r = Repeatable(x) over x = Repeatable(m) or x = Persistent(m, "a")
CollapseProgram(kind, max_batch, cache) ==
    LET s1 == NewBuffered(Blank, kind, "m", max_batch)
        s2 == IF cache = "Repeatable" THEN NewRepeatable(s1, 1)
              ELSE NewPersistent(s1, 1, "a", FALSE)
        s3 == NewRepeatable(s2, 3)
    IN  Program(s3, "collapse", {5}, [m |-> 1, x |-> 3, r |-> 5], Names, Hints, MaxStream, 0)

\* ind = Independent(c), c = Repeatable(m); r1 = Repeatable(ind); r2 = Repeatable(ind)
IndependentProgram(kind, max_batch) ==
    LET s1 == NewBuffered(Blank, kind, "m", max_batch)
        s2 == NewRepeatable(s1, 1)
        s3 == NewIndependent(s2, 3)
        s4 == NewRepeatable(s3, 4)
        s5 == NewRepeatable(s4, 4)
    IN  Program(s5, "independent", {6, 8},
                [m |-> 1, c |-> 3, ind |-> 4, r1 |-> 6, r2 |-> 8], Names, Hints, MaxStream, 0)

BufferedPrograms ==
    {BufferedProgram(k, mb) : k \in BaseKinds, mb \in WideMaxBatches}
SinglePrograms ==
    {SingleProgram(k, mb, c, n) : k \in BaseKinds, mb \in MaxBatches,
                                  c \in {"Repeatable", "Persistent", "Replication", "Replicas"},
                                  n \in RecordedCounts}
NestedPrograms ==
    {NestedProgram(k, mb, n) : k \in BaseKinds, mb \in MaxBatches, n \in RecordedCounts}
CollapsePrograms ==
    {CollapseProgram(k, mb, c) : k \in BaseKinds, mb \in MaxBatches, c \in {"Repeatable", "Persistent"}}
IndependentPrograms ==
    {IndependentProgram(k, mb) : k \in BaseKinds, mb \in MaxBatches}

\* r = Repeatable(m), and rr = Repeatable(x) over x = Repeatable(m2), m2 a model
\* like m behind a transport that delivers what m's delivers
PairProgram(kind, max_batch) ==
    LET s1 == NewBuffered(Blank, kind, "m", max_batch)
        s2 == NewRepeatable(s1, 1)
        s3 == NewBuffered(s2, kind, "m", max_batch)
        s4 == NewRepeatable(s3, 4)
        s5 == NewRepeatable(s4, 6)
    IN  Program(s5, "pair", {3}, [m |-> 1, r |-> 3, m2 |-> 4, x |-> 6, rr |-> 8],
                Names, Hints, MaxStream + 2, 0)

PairPrograms ==
    {PairProgram(k, mb) : k \in BaseKinds, mb \in MaxBatches}

\* c = <cache>(m), every sample and set_batch_size called with the one hint b
AmortizedProgram(kind, max_batch, cache, b) ==
    LET s1 == NewBuffered(Blank, kind, "m", max_batch)
        s2 == IF cache = "Repeatable" THEN NewRepeatable(s1, 1)
              ELSE NewPersistent(s1, 1, "a", FALSE)
    IN  Program(s2, "amortized", {3}, [m |-> 1, c |-> 3], Names, {b}, MaxDelivered, 0)

\* c = <cache>(m), sampled with two prompts
FrameProgram(kind, max_batch, cache) ==
    LET s1 == NewBuffered(Blank, kind, "m", max_batch)
        s2 == IF cache = "Repeatable" THEN NewRepeatable(s1, 1)
              ELSE NewPersistent(s1, 1, "a", FALSE)
    IN  [Program(s2, "frame", {3}, [m |-> 1, c |-> 3], Names, Hints, MaxStream, 0)
            EXCEPT !.s = StartWith(s2, FramePrompts)]

FramePrograms ==
    {FrameProgram(k, mb, c) : k \in BaseKinds, mb \in MaxBatches,
                              c \in {"Repeatable", "Persistent"}}

AmortizedPrograms ==
    {AmortizedProgram(k, mb, c, b) : k \in BaseKinds, mb \in {2, 3},
                                     c \in {"Repeatable", "Persistent"}, b \in Hints}

\* Two processes, each with its own Persistent over the root "a": s1 pulls
\* from c, s2 from c2; the models of both reach one endpoint
RaceProgram(kind, max_batch, n) ==
    LET s1 == NewBuffered(Blank, kind, "m", max_batch)
        s2 == NewPersistent(s1, 1, "a", FALSE)
        s3 == NewPersistent(s2, 1, "a", FALSE)
    IN  Program(IF n > 0 THEN Recorded(s3, "a", n) ELSE s3,
                "race", {3, 5}, [m |-> 1, c |-> 3, c2 |-> 5, s1 |-> 3, s2 |-> 5],
                Names, Hints, MaxStream + 1, n)

RacePrograms ==
    {RaceProgram(k, mb, n) : k \in BaseKinds, mb \in MaxBatches, n \in RecordedCounts}

\* o = Persistent(i, "b") over i = Persistent(m, "a"), root "a" recorded or not;
\* the process may end and a new one build m, i and o again over the roots
RestartProgram(kind, max_batch, n) ==
    LET s1 == NewBuffered(Blank, kind, "m", max_batch)
        s2 == NewPersistent(s1, 1, "a", FALSE)
        s3 == NewPersistent(s2, 3, "b", FALSE)
    IN  Program(IF n > 0 THEN Recorded(s3, "a", n) ELSE s3,
                "restart", {5}, [m |-> 1, i |-> 3, o |-> 5],
                Names, Hints, MaxStream, n)

RestartPrograms ==
    {RestartProgram(k, mb, n) : k \in BaseKinds, mb \in MaxBatches, n \in RecordedCounts}

\* model = Independent(given), as query_retry builds it, given being m, a
\* Repeatable over m, or a replication Persistent over a recorded root
RetryProgram(kind, max_batch, given) ==
    LET s1 == NewBuffered(Blank, kind, "m", max_batch)
        s2 == CASE given = "model"       -> s1
                [] given = "Repeatable"  -> NewRepeatable(s1, 1)
                [] given = "Replication" -> NewPersistent(s1, 1, "a", TRUE)
        s3 == NewIndependent(s2, Len(s2.objs))
    IN  Program(IF given = "Replication" THEN Recorded(s3, "a", 2) ELSE s3,
                "retry", {}, [m |-> 1, model |-> Len(s3.objs)],
                {}, {1}, MaxDelivered, IF given = "Replication" THEN 2 ELSE 0)

RetryPrograms ==
    {RetryProgram(k, mb, g) : k \in BaseKinds, mb \in MaxBatches,
                              g \in {"model", "Repeatable", "Replication"}}

\* --------------------------------------------------------------- state
State ==
    [objs |-> objs, iters |-> iters, disk |-> disk, transport |-> transport,
     hist |-> hist, fetched |-> fetched, requested |-> requested,
     queries |-> <<>>, sampled |-> <<>>, returns |-> <<>>]

Commit(s) ==
    /\ objs' = s.objs
    /\ iters' = s.iters
    /\ disk' = s.disk
    /\ transport' = s.transport
    /\ hist' = s.hist
    /\ fetched' = s.fetched
    /\ requested' = s.requested

NoCall == [op |-> "none", obj |-> 0, it |-> 0, prompt |-> "", pos |-> 0, stored |-> 0,
           res |-> [tag |-> "none", v |-> <<>>],
           queries |-> <<>>, sampled |-> <<>>, returns |-> <<>>,
           twin |-> [tag |-> "none", v |-> <<>>], twin_queries |-> <<>>]

\* A variable of the caller: the iterator it holds and, for a buffered iterator,
\* its history while no _query failed: the hint it was asked with, whether
\* set_batch_size changed the hint later, the pulls made and the _query calls issued
Handle(it, hint) ==
    [it |-> it, hint |-> hint, retuned |-> FALSE, failed |-> FALSE, pulls |-> 0, queries |-> 0]

\* The transport stops after cfg.stream completions for a prompt
WithinStream(s) ==
    \A o \in 1..Len(s.objs) : \A p \in DOMAIN s.transport[o] : s.transport[o][p] <= cfg.stream

\* Iterators nothing refers to any more are freed (the newest first)
Referenced(s, held) ==
    held \cup UNION {{s.objs[o].inner_iters[k] : k \in DOMAIN s.objs[o].inner_iters} : o \in 1..Len(s.objs)}

RECURSIVE Collect(_, _)
Collect(s, held) ==
    IF Len(s.iters) > 0 /\ Len(s.iters) \notin Referenced(s, held)
    THEN Collect([s EXCEPT !.iters = SubSeq(@, 1, Len(@) - 1)], held)
    ELSE s

InitOf(programs) ==
    \E prog \in programs :
        /\ objs = prog.s.objs
        /\ iters = <<>>
        /\ disk = prog.s.disk
        /\ transport = prog.s.transport
        /\ hist = prog.s.hist
        /\ fetched = prog.s.fetched
        /\ requested = prog.s.requested
        /\ cfg = prog.cfg
        /\ handles = EmptyDict
        /\ last = NoCall

Held == {handles[n].it : n \in DOMAIN handles}

\* The number of values the store of iterator it's cache holds for its prompt
StoredBy(it) ==
    IF iters[it].kind = "buffered" THEN 0
    ELSE Len(Load(State, iters[it].base, prompt_id(iters[it].prompt)))

\* history: next(it) was called in this state and did r
Called(it, r) ==
    [op |-> "next", obj |-> iters[it].base, it |-> it, prompt |-> iters[it].prompt,
     pos |-> iters[it].current_index, stored |-> StoredBy(it), res |-> r.res,
     queries |-> r.s.queries, sampled |-> r.s.sampled, returns |-> r.s.returns,
     twin |-> NoCall.res, twin_queries |-> <<>>]

\* The caller runs name = o.sample(prompt, batch)
Sample(name, o, prompt, batch) ==
    /\ o \in cfg.public
    /\ batch \in cfg.hints
    /\ name \in cfg.names \ DOMAIN handles
    /\ LET r == SampleOp(State, o, prompt, batch) IN
        /\ Commit(r.s)
        /\ handles' = Put(handles, name,
                          Handle(r.it, IF r.s.iters[r.it].kind = "buffered" THEN batch ELSE 0))
    /\ last' = NoCall
    /\ UNCHANGED cfg

\* The caller runs next(name); ok tells whether the transport answers a _query
Pull(name, ok) ==
    /\ name \in DOMAIN handles
    /\ LET it == handles[name].it
           r  == NextOp(State, it, ok)
       IN
        /\ WithinStream(r.s)
        /\ ~ok => Failed(r.s.queries)
        /\ Commit(Collect(r.s, Held))
        /\ handles' = IF iters[it].kind # "buffered" \/ handles[name].failed THEN handles
                      ELSE IF r.res.tag # "ok"
                      THEN [handles EXCEPT ![name].failed = TRUE, ![name].pulls = 0,
                                           ![name].queries = 0]
                      ELSE [handles EXCEPT ![name].pulls = @ + 1,
                                           ![name].queries = @ + Len(r.s.queries)]
        /\ last' = Called(it, r)
    /\ UNCHANGED cfg

\* The caller runs name.set_batch_size(n)
SetBatch(name, n) ==
    /\ name \in DOMAIN handles
    /\ n \in cfg.hints
    /\ LET it == handles[name].it IN
        /\ Commit(set_batch_size(State, it, n))
        /\ handles' = IF iters[it].kind = "buffered" /\ n # handles[name].hint
                      THEN [handles EXCEPT ![name].retuned = TRUE] ELSE handles
    /\ last' = NoCall
    /\ UNCHANGED cfg

Next ==
    \/ \E name \in Names, o \in 1..Len(objs), p \in Prompts, b \in WideHints : Sample(name, o, p, b)
    \/ \E name \in Names, ok \in BOOLEAN : Pull(name, ok)
    \/ \E name \in Names, n \in WideHints : SetBatch(name, n)

\* One cache over a buffered model, and a second Persistent over the same root
Init == InitOf(SinglePrograms)

Spec == Init /\ [][Next]_vars

\* A buffered model sampled without a cache
InitBuffered == InitOf(BufferedPrograms)

SpecBuffered == InitBuffered /\ [][Next]_vars

\* A Persistent over a Persistent, each with its root
InitNested == InitOf(NestedPrograms)

SpecNested == InitNested /\ [][Next]_vars

\* A Repeatable over a cache
InitCollapse == InitOf(CollapsePrograms)

SpecCollapse == InitCollapse /\ [][Next]_vars

\* Two caches over one Independent
InitIndependent == InitOf(IndependentPrograms)

SpecIndependent == InitIndependent /\ [][Next]_vars

\* One cache over a buffered model, sampled with one batch hint
InitAmortized == InitOf(AmortizedPrograms)

SpecAmortized == InitAmortized /\ [][Next]_vars

\* ------------------------------------------------- two stacks in step
\* The variable that holds, for the caller's variable name, the iterator of rr
Twin(name) == IF name = "s1" THEN "t1" ELSE "t2"

\* The state a second call starts from, after a first call left s
Then(s) == [s EXCEPT !.queries = <<>>, !.sampled = <<>>, !.returns = <<>>]

\* The caller runs name = r.sample(prompt, batch); Twin(name) = rr.sample(prompt, batch)
PairSample(name, prompt, batch) ==
    /\ cfg.topo = "pair"
    /\ batch \in cfg.hints
    /\ name \in cfg.names \ DOMAIN handles
    /\ LET r1 == SampleOp(State, cfg.who.r, prompt, batch)
           r2 == SampleOp(Then(r1.s), cfg.who.rr, prompt, batch)
       IN
        /\ Commit(r2.s)
        /\ handles' = Put(Put(handles, name, Handle(r1.it, 0)), Twin(name), Handle(r2.it, 0))
    /\ last' = NoCall
    /\ UNCHANGED cfg

\* The caller runs next(name); next(Twin(name)); ok tells whether the transports
\* answer a _query
PairPull(name, ok) ==
    /\ cfg.topo = "pair"
    /\ name \in DOMAIN handles \cap cfg.names
    /\ LET it1 == handles[name].it
           it2 == handles[Twin(name)].it
           r1  == NextOp(State, it1, ok)
           r2  == NextOp(Then(r1.s), it2, ok)
       IN
        /\ WithinStream(r2.s)
        /\ ~ok => Failed(r1.s.queries)
        /\ Commit(Collect(r2.s, Held))
        /\ last' = [Called(it1, r1) EXCEPT !.twin = r2.res, !.twin_queries = r2.s.queries]
    /\ UNCHANGED <<cfg, handles>>

\* The caller runs name.set_batch_size(n); Twin(name).set_batch_size(n)
PairSetBatch(name, n) ==
    /\ cfg.topo = "pair"
    /\ name \in DOMAIN handles \cap cfg.names
    /\ n \in cfg.hints
    /\ Commit(set_batch_size(set_batch_size(State, handles[name].it, n),
                             handles[Twin(name)].it, n))
    /\ last' = NoCall
    /\ UNCHANGED <<cfg, handles>>

PairNext ==
    \/ \E name \in Names, p \in Prompts, b \in WideHints : PairSample(name, p, b)
    \/ \E name \in Names, ok \in BOOLEAN : PairPull(name, ok)
    \/ \E name \in Names, n \in WideHints : PairSetBatch(name, n)

\* Repeatable(M) and Repeatable(Repeatable(M)), driven by the same calls
InitPair == InitOf(PairPrograms)

SpecPair == InitPair /\ [][PairNext]_vars

\* ---------------------------------------------------------- query_retry
\* parse(spec, raw), when it succeeds
Parsed(raw) == [parsed |-> raw]

\* The frame of a call of query_retry: its arguments, the loop variable, the
\* samples pulled and the attempts failed so far, and how it ended ("running"
\* while it has not; "None" when the function returns without a return statement)
Frame(retries, validator) ==
    [retries |-> retries, validator |-> validator, attempt |-> 1, pulls |-> 0, failures |-> 0,
     outcome |-> IF 1 < retries + 1 THEN "running" ELSE "None",
     value |-> <<>>, cause |-> "", prompt |-> ""]

\* query_retry(model, prompt, spec, retries, validator) up to the loop
RetryCall(prompt, retries, validator) ==
    /\ cfg.topo = "retry"
    /\ handles = EmptyDict
    /\ handles' = Put(handles, "call", [Frame(retries, validator) EXCEPT !.prompt = prompt])
    /\ last' = NoCall
    /\ UNCHANGED <<objs, iters, disk, transport, cfg, hist, fetched, requested>>

\* One turn of the loop: ok tells whether the transport answers a _query, parses
\* whether parse(spec, raw) succeeds, valid what the validator returns
RetryAttempt(ok, parses, valid) ==
    /\ cfg.topo = "retry"
    /\ "call" \in DOMAIN handles
    /\ handles["call"].outcome = "running"
    /\ LET f     == handles["call"]
           r1    == SampleOp(State, cfg.who.model, f.prompt, 1)
           r2    == NextOp(r1.s, r1.it, ok)
           cause == IF r2.res.tag # "ok" THEN r2.res.tag
                    ELSE IF ~parses THEN "LLMOutputError"
                    ELSE IF f.validator /\ ~valid THEN "ValueError"
                    ELSE ""
           f1    == [f EXCEPT !.pulls = @ + 1]
       IN
        /\ WithinStream(r2.s)
        /\ ~ok => Failed(r2.s.queries)
        /\ Commit(Collect(r2.s, {}))
        /\ handles' = Put(handles, "call",
              IF cause = ""
              THEN [f1 EXCEPT !.outcome = "returned", !.value = Parsed(r2.res.v)]
              ELSE IF f.attempt = f.retries
              THEN [f1 EXCEPT !.failures = @ + 1, !.outcome = "LLMOutputError", !.cause = cause]
              ELSE [f1 EXCEPT !.failures = @ + 1, !.attempt = @ + 1])
        /\ last' = [NoCall EXCEPT !.op = "query_retry", !.obj = cfg.who.model,
                                  !.prompt = f.prompt, !.res = r2.res,
                                  !.queries = r2.s.queries, !.sampled = r2.s.sampled]
    /\ UNCHANGED cfg

RetryNext ==
    \/ \E p \in Prompts, r \in 0..MaxRetries, v \in BOOLEAN : RetryCall(p, r, v)
    \/ \E ok \in BOOLEAN, parses \in BOOLEAN, valid \in BOOLEAN : RetryAttempt(ok, parses, valid)

\* One call of query_retry
InitRetry == InitOf(RetryPrograms)

SpecRetry == InitRetry /\ [][RetryNext]_vars

\* ------------------------------------------------------ process restart
\* The process ends and a new one builds the same objects over the roots: the
\* files stay, every dict (_inner_iters, _cache) and every iterator is new
\* (no more restarts once a directory holds more than cfg.stream files)
Restart ==
    /\ cfg.topo = "restart"
    /\ handles # EmptyDict
    /\ \A d \in DOMAIN disk : Cardinality(DOMAIN disk[d]) <= cfg.stream
    /\ objs' = [o \in 1..Len(objs) |->
                    [objs[o] EXCEPT !.inner_iters = EmptyDict, !.cache = EmptyDict]]
    /\ iters' = <<>>
    /\ handles' = EmptyDict
    /\ hist' = Start(State).hist
    /\ fetched' = Start(State).fetched
    /\ requested' = Start(State).requested
    /\ last' = NoCall
    /\ UNCHANGED <<disk, transport, cfg>>

RestartNext == Next \/ Restart

\* A Persistent over a Persistent, across restarts of the process
InitRestart == InitOf(RestartPrograms)

SpecRestart == InitRestart /\ [][RestartNext]_vars

\* ------------------------------------------- a cache asked with two prompts
FrameNext ==
    \/ \E name \in Names, o \in 1..Len(objs), p \in FramePrompts, b \in WideHints :
          Sample(name, o, p, b)
    \/ \E name \in Names, ok \in BOOLEAN : Pull(name, ok)
    \/ \E name \in Names, n \in WideHints : SetBatch(name, n)

InitFrame == InitOf(FramePrograms)

SpecFrame == InitFrame /\ [][FrameNext]_vars

\* ------------------------------------------- processes that interleave
\* A process: the cursor it pulls from, where it stands in a pull (idle, fetched:
\* at line 258 with the fresh value, counted: at line 311 with the index i)
Proc(it) == [it |-> it, pc |-> "idle", i |-> 0, fresh |-> <<>>]

\* The process runs name = <its cache>.sample(prompt, batch)
RaceSample(name, prompt, batch) ==
    /\ cfg.topo = "race"
    /\ batch \in cfg.hints
    /\ name \in cfg.names \ DOMAIN handles
    /\ LET r == SampleOp(State, cfg.who[name], prompt, batch) IN
        /\ Commit(r.s)
        /\ handles' = Put(handles, name, Proc(r.it))
    /\ last' = NoCall
    /\ UNCHANGED cfg

\* The process runs next(name) up to the call of _store, or to its end when the
\* pull replays or fails
RaceFetch(name, ok) ==
    /\ cfg.topo = "race"
    /\ name \in DOMAIN handles
    /\ handles[name].pc = "idle"
    /\ LET it == handles[name].it
           f  == SharedFetch(State, it, ok)
       IN
        /\ WithinStream(f.s)
        /\ ~ok => Failed(f.s.queries)
        /\ Commit(Collect(f.s, Held))
        /\ handles' = IF f.fresh
                      THEN [handles EXCEPT ![name].pc = "fetched", ![name].fresh = f.res.v]
                      ELSE handles
        /\ last' = IF f.fresh THEN NoCall ELSE Called(it, f)
    /\ UNCHANGED cfg

\* The process runs _store up to "i = len(...)"
RaceCount(name) ==
    /\ cfg.topo = "race"
    /\ name \in DOMAIN handles
    /\ handles[name].pc = "fetched"
    /\ LET i == iters[handles[name].it]
           c == StoreCount(State, i.base, prompt_id(i.prompt))
       IN
        /\ Commit(c.s)
        /\ handles' = [handles EXCEPT ![name].pc = "counted", ![name].i = c.i]
    /\ last' = NoCall
    /\ UNCHANGED cfg

\* The process writes the file, advances the cursor and returns the fresh value
RaceWrite(name) ==
    /\ cfg.topo = "race"
    /\ name \in DOMAIN handles
    /\ handles[name].pc = "counted"
    /\ LET it == handles[name].it
           i  == iters[it]
           s1 == StoreWrite(State, i.base, prompt_id(i.prompt), handles[name].i,
                            handles[name].fresh)
           r  == SharedReturn(s1, it, handles[name].fresh)
       IN
        /\ Commit(r.s)
        /\ last' = Called(it, r)
    /\ handles' = [handles EXCEPT ![name] = Proc(handles[name].it)]
    /\ UNCHANGED cfg

RaceNext ==
    \/ \E name \in Names, p \in Prompts, b \in WideHints : RaceSample(name, p, b)
    \/ \E name \in Names, ok \in BOOLEAN : RaceFetch(name, ok)
    \/ \E name \in Names : RaceCount(name)
    \/ \E name \in Names : RaceWrite(name)

\* Two processes writing to one root
InitRace == InitOf(RacePrograms)

SpecRace == InitRace /\ [][RaceNext]_vars

\* ================================================================ claims
Caches == {o \in 1..Len(objs) : objs[o].kind \in {"Repeatable", "Persistent"}}

\* The stored sequence of cache o for a prompt
Stored(o, prompt) == Load(State, o, prompt_id(prompt))

\* C1 (replay determinism): every value a pull of a cache cursor returns at
\* position i, by the caller's cursors or by a cursor an Independent holds, is
\* the value the first pull at position i of that cache returned.
C1_ReplayDeterminism ==
    \A k \in 1..Len(last.returns) :
        LET r == last.returns[k] IN
            /\ r.pos < Len(hist[r.cache][r.prompt])
            /\ hist[r.cache][r.prompt][r.pos + 1] = r.v

\* What is left of C1: a later pull at position i returns the first value up to
\* its line endings, and, from a Repeatable, the first value itself.
ReplayUpToLineEndings ==
    \A k \in 1..Len(last.returns) :
        LET r == last.returns[k] IN
            /\ r.pos < Len(hist[r.cache][r.prompt])
            /\ read_text(hist[r.cache][r.prompt][r.pos + 1]) = read_text(r.v)
            /\ objs[r.cache].kind = "Repeatable" => hist[r.cache][r.prompt][r.pos + 1] = r.v

\* C2 (at most one fresh value per position): a cache has fetched from its inner
\* model no more values for a prompt than positions were requested of it; when
\* its store holds as many values as it fetched (empty at first, no other writer)
\* the number fetched is the highest position pulled plus one.
C2_AtMostOneFreshPerPosition ==
    \A o \in Caches : \A p \in Prompts :
        /\ Len(fetched[o][p]) <= requested[o][p]
        /\ Len(Stored(o, p)) = Len(fetched[o][p]) => Len(fetched[o][p]) = Len(hist[o][p])

\* C2 witness: two cursors of one cache have each pulled two positions, and the
\* cache fetched two values.
C2_Witness ==
    \E o \in Caches : \E p \in Prompts :
        /\ Len(fetched[o][p]) = 2
        /\ Len(Stored(o, p)) = 2
        /\ \A n \in Names : n \in DOMAIN handles /\ iters[handles[n].it].base = o
                            /\ iters[handles[n].it].current_index = 2

\* The buffered iterators the caller holds whose hint never changed and whose
\* _query calls all succeeded
Steady == {n \in DOMAIN handles : /\ iters[handles[n].it].kind = "buffered"
                                  /\ ~handles[n].retuned /\ ~handles[n].failed
                                  /\ handles[n].pulls >= 1}

MaxBatchOf(n) == objs[iters[handles[n].it].base].max_batch

\* C3 as claimed (batch amortization count): K pulls of one sample sequence whose
\* hint b is at least max_batch = M issue exactly ceil(K / M) _query calls.
C3_QueriesCeilKOverM ==
    \A n \in Steady :
        handles[n].hint >= MaxBatchOf(n)
            => handles[n].queries = Ceil(handles[n].pulls, MaxBatchOf(n))

\* C3 as amended: K pulls of one sample sequence with hint b issue exactly
\* ceil(K / s) _query calls, s = ceil(b / ceil(b / M)) being the size of each
\* call; that is ceil(K / M) when b is a multiple of M.
C3_QueriesCeilKOverBatchSize ==
    \A n \in Steady :
        /\ handles[n].queries = Ceil(handles[n].pulls, BatchSize(handles[n].hint, MaxBatchOf(n)))
        /\ handles[n].hint % MaxBatchOf(n) = 0
             => handles[n].queries = Ceil(handles[n].pulls, MaxBatchOf(n))

\* C3 witness: hint 4 over max_batch 3, the case of two calls of size 2 for
\* three pulls, where ceil(K / M) is 1.
C3_Witness ==
    \E n \in Steady :
        /\ handles[n].hint = 4 /\ MaxBatchOf(n) = 3
        /\ handles[n].pulls = 3 /\ handles[n].queries = 2

\* C4 (batch size bound): every _query call asks for at least 1 and at most
\* max_batch completions, and every buffered iterator's batch size lies in that
\* range, whatever hints sample and set_batch_size were given.
C4_BatchSizeBound ==
    /\ \A k \in 1..Len(last.queries) :
          /\ 1 <= last.queries[k].n
          /\ last.queries[k].n <= objs[last.queries[k].model].max_batch
    /\ \A it \in 1..Len(iters) :
          iters[it].kind = "buffered"
            => /\ 1 <= iters[it].batch_size
               /\ iters[it].batch_size <= objs[iters[it].base].max_batch

\* C4 witness: a _query call made after set_batch_size re-tuned the hint to a
\* value above max_batch.
C4_Witness ==
    \E n \in DOMAIN handles :
        /\ handles[n].retuned
        /\ last.op = "next" /\ last.it = handles[n].it
        /\ Len(last.queries) = 1 /\ last.res.tag = "ok"
        /\ \E h \in cfg.hints :
              /\ h > MaxBatchOf(n)
              /\ h # handles[n].hint
              /\ last.queries[1].n = BatchSize(h, MaxBatchOf(n))
              /\ BatchSize(h, MaxBatchOf(n)) # BatchSize(handles[n].hint, MaxBatchOf(n))

\* The last call was next() on a cursor of cache o
PulledOn(o) == last.op = "next" /\ last.obj = o

\* The last call touched no model beneath the cache: no sample, no _query
NothingFetched == last.sampled = <<>> /\ last.queries = <<>>

\* The contents of the numbered files of cache o's directory for a prompt, in order
Files(o, prompt) ==
    LET d  == prompt_dir(State, o, prompt_id(prompt))
        fs == list_numbered_files(State, d)
    IN  [k \in 1..Len(fs) |-> disk[d][fs[k]]]

\* c = Persistent(m, "a") writes, c2 = Persistent(m, "a") has fetched nothing
RoundTripProgram ==
    /\ cfg.topo = "single"
    /\ objs[cfg.who.c].kind = "Persistent" /\ ~objs[cfg.who.c].fail_on_miss

\* C5 (persistence round trip): the values c fetched and wrote stand in the root
\* after the files an earlier run left, and a pull of c2 at the position of one
\* of them returns exactly the value c wrote there, without sampling or querying.
C5_PersistenceRoundTrip ==
    RoundTripProgram
    => \A p \in Prompts :
          fetched[cfg.who.c2][p] = <<>>
            => /\ Len(Stored(cfg.who.c2, p)) = cfg.recorded + Len(fetched[cfg.who.c][p])
               /\ (/\ PulledOn(cfg.who.c2) /\ last.prompt = p
                   /\ cfg.recorded <= last.pos /\ last.pos < last.stored)
                    => /\ last.res = Ok(fetched[cfg.who.c][p][last.pos - cfg.recorded + 1])
                       /\ NothingFetched

\* What is left of C5: c2 returns the value c wrote up to its line endings.
RoundTripUpToLineEndings ==
    RoundTripProgram
    => \A p \in Prompts :
          fetched[cfg.who.c2][p] = <<>>
            => /\ Len(Stored(cfg.who.c2, p)) = cfg.recorded + Len(fetched[cfg.who.c][p])
               /\ (/\ PulledOn(cfg.who.c2) /\ last.prompt = p
                   /\ cfg.recorded <= last.pos /\ last.pos < last.stored)
                    => /\ last.res = Ok(read_text(fetched[cfg.who.c][p][last.pos - cfg.recorded + 1]))
                       /\ NothingFetched

\* C6 (replication mode): a pull on a cursor of a Persistent built with
\* replication=True returns the value the root holds at the cursor's position
\* when it holds one and raises ReplicationCacheMiss when it does not; it never
\* samples or queries a model, and the cache's Independent never gets a cursor.
C6_ReplicationMode ==
    \A o \in Caches :
        objs[o].fail_on_miss
          => /\ fetched[o] = [p \in Prompts |-> <<>>]
             /\ objs[objs[o].inner].inner_iters = EmptyDict
             /\ PulledOn(o)
                  => /\ NothingFetched
                     /\ last.pos < last.stored
                          => last.res = Ok(Files(o, last.prompt)[last.pos + 1])
                     /\ last.pos >= last.stored
                          => last.pos = last.stored /\ last.res = CacheMiss

\* What is left of C6: the value returned is the file's text with its line
\* endings read as "\n"; the miss and the absence of sampling are as claimed.
ReplicationUpToLineEndings ==
    \A o \in Caches :
        objs[o].fail_on_miss
          => /\ fetched[o] = [p \in Prompts |-> <<>>]
             /\ objs[objs[o].inner].inner_iters = EmptyDict
             /\ PulledOn(o)
                  => /\ NothingFetched
                     /\ last.pos < last.stored
                          => last.res = Ok(read_text(Files(o, last.prompt)[last.pos + 1]))
                     /\ last.pos >= last.stored
                          => last.pos = last.stored /\ last.res = CacheMiss

\* A replication cursor over two recorded values that returned both has just
\* raised ReplicationCacheMiss at position 2.
ReplicationMissReached ==
    \E o \in Caches :
        /\ objs[o].fail_on_miss /\ cfg.recorded = 2
        /\ PulledOn(o) /\ last.pos = 2 /\ last.stored = 2 /\ last.res = CacheMiss
        /\ Len(hist[o][last.prompt]) = 2

\* x occurs in sequence q
Occurs(x, q) == \E k \in 1..Len(q) : q[k] = x

Min(a, b) == IF a <= b THEN a ELSE b

\* o = Persistent(i, "b"), i = Persistent(m, "a"), and the plain cache p over
\* root "b" has fetched nothing
NestedUntouched(prompt) == cfg.topo = "nested" /\ fetched[cfg.who.p][prompt] = <<>>

\* C7 (nested persistent caches): with k values recorded under root A, a pull
\* through O at a position below k returns A's value at that position and reaches
\* neither the underlying model nor a _query; root B holds A's values at the
\* positions pulled so far, and the plain Persistent over B returns them without
\* fetching.
C7_NestedPersistent ==
    \A q \in Prompts :
        NestedUntouched(q)
          => /\ Len(Files(cfg.who.o, q)) = Len(hist[cfg.who.o][q])
             /\ \A k \in 1..Min(Len(Files(cfg.who.o, q)), cfg.recorded) :
                    Files(cfg.who.o, q)[k] = RecordedText("a", q, k)
             /\ (PulledOn(cfg.who.o) /\ last.prompt = q /\ last.pos < cfg.recorded)
                  => /\ last.res = Ok(RecordedText("a", q, last.pos + 1))
                     /\ ~Occurs(cfg.who.m, last.sampled) /\ last.queries = <<>>
             /\ (/\ PulledOn(cfg.who.p) /\ last.prompt = q
                 /\ last.pos < Min(last.stored, cfg.recorded))
                  => /\ last.res = Ok(RecordedText("a", q, last.pos + 1))
                     /\ NothingFetched

\* What is left of C7: the same, each value up to its line endings.
NestedUpToLineEndings ==
    \A q \in Prompts :
        NestedUntouched(q)
          => /\ Len(Files(cfg.who.o, q)) = Len(hist[cfg.who.o][q])
             /\ \A k \in 1..Min(Len(Files(cfg.who.o, q)), cfg.recorded) :
                    Files(cfg.who.o, q)[k] = read_text(RecordedText("a", q, k))
             /\ (PulledOn(cfg.who.o) /\ last.prompt = q /\ last.pos < cfg.recorded)
                  => /\ last.res = Ok(read_text(RecordedText("a", q, last.pos + 1)))
                     /\ ~Occurs(cfg.who.m, last.sampled) /\ last.queries = <<>>
             /\ (/\ PulledOn(cfg.who.p) /\ last.prompt = q
                 /\ last.pos < Min(last.stored, cfg.recorded))
                  => /\ last.res = Ok(read_text(RecordedText("a", q, last.pos + 1)))
                     /\ NothingFetched

\* Two pulls through O over two recorded values, then the plain cache over B
\* replayed the second of them.
NestedReplayReached ==
    /\ cfg.topo = "nested" /\ cfg.recorded = 2
    /\ \A q \in Prompts : fetched[cfg.who.p][q] = <<>>
    /\ PulledOn(cfg.who.p) /\ last.pos = 1 /\ last.stored = 2 /\ last.res.tag = "ok"
    /\ fetched[cfg.who.o][last.prompt] # <<>>

\* C9 (collapse rule): the Repeatable r built over the cache x keeps no entry in
\* its own mapping, whatever was sampled and pulled.
C9_CollapseRule ==
    cfg.topo = "collapse" => objs[cfg.who.r].cache = EmptyDict

\* The cursor the Independent ind remembers for a prompt, 0 when it has none
SharedCursor(ind, prompt) == Get(objs[ind].inner_iters, prompt_id(prompt), 0)

\* The position in sequence q of a value that occurs in it once
PositionIn(v, q) == CHOOSE j \in 1..Len(q) : q[j] = v

\* The values of q occur in h, in the order of h
InOrderOf(q, h) ==
    /\ \A j \in 1..Len(q) : Occurs(q[j], h)
    /\ \A j, k \in 1..Len(q) : j < k => PositionIn(q[j], h) < PositionIn(q[k], h)

\* C10 (shared cursor of an Independent): ind = Independent(c) over the cache c
\* keeps one cursor on c for a prompt, which every cursor on c is; the values the
\* caches r1 and r2 built over ind fetched are each in the order of c's sequence,
\* no position of it went to both, and together they are the positions the
\* shared cursor has passed.
C10_SharedCursor ==
    cfg.topo = "independent"
    => \A q \in Prompts :
          LET h  == hist[cfg.who.c][q]
              a  == fetched[cfg.who.r1][q]
              b  == fetched[cfg.who.r2][q]
              it == SharedCursor(cfg.who.ind, q)
              n  == IF it = 0 THEN 0 ELSE iters[it].current_index
          IN  /\ \A x \in 1..Len(iters) :
                    (iters[x].base = cfg.who.c /\ iters[x].prompt = q) => x = it
              /\ \A j, k \in 1..Len(h) : j # k => h[j] # h[k]
              /\ Len(h) = n
              /\ InOrderOf(a, h) /\ InOrderOf(b, h)
              /\ \A j \in 1..Len(h) : Occurs(h[j], a) # Occurs(h[j], b)
              /\ Len(a) + Len(b) = n

\* C10 witness: r1 fetched position 0 of c's sequence, and then a pull on a
\* cursor of r2, sampled with another hint, fetched position 1.
C10_Witness ==
    /\ cfg.topo = "independent"
    /\ PulledOn(cfg.who.r2) /\ last.pos = 0 /\ last.res.tag = "ok"
    /\ Len(fetched[cfg.who.r1][last.prompt]) = 1
    /\ fetched[cfg.who.r2][last.prompt] = <<hist[cfg.who.c][last.prompt][2]>>
    /\ iters[SharedCursor(cfg.who.ind, last.prompt)].batch_size = 2
    /\ \E n \in DOMAIN handles :
          iters[handles[n].it].base = cfg.who.r1 /\ iters[handles[n].it].batch_size = 1

\* The sizes of the _query calls in a list of them
Sizes(queries) == [k \in 1..Len(queries) |-> queries[k].n]

\* C8 (cache nesting idempotence): r = Repeatable(m) and rr = Repeatable(x),
\* x = Repeatable(m2), driven by the same sample, set_batch_size and next calls:
\* every pull returns the same on both, with _query calls of the same sizes; the
\* values fetched from m and from m2 are the same, the transports delivered as
\* many completions, and rr fetched from x what x fetched from m2.
C8_NestingIdempotence ==
    cfg.topo = "pair"
    => /\ last.op = "next"
            => /\ last.res = last.twin
               /\ Sizes(last.queries) = Sizes(last.twin_queries)
       /\ \A q \in Prompts :
            /\ fetched[cfg.who.r][q] = fetched[cfg.who.x][q]
            /\ fetched[cfg.who.rr][q] = fetched[cfg.who.x][q]
            /\ transport[cfg.who.m][q] = transport[cfg.who.m2][q]
            /\ hist[cfg.who.r][q] = hist[cfg.who.rr][q]

\* C8 witness: three values were fetched by a _query of size 2 and, the hint
\* changed, a _query of size 1, and a second cursor's pull replayed position 1 on
\* both stacks.
C8_Witness ==
    /\ cfg.topo = "pair"
    /\ PulledOn(cfg.who.r) /\ last.res.tag = "ok" /\ last.twin = last.res
    /\ last.pos = 1 /\ last.stored = 3 /\ last.queries = <<>>
    /\ Len(fetched[cfg.who.x][last.prompt]) = 3
    /\ transport[cfg.who.m2][last.prompt] = 3
    /\ Cardinality(DOMAIN handles) = 4

\* What the store of cache o keeps for a prompt: the list in the dict of a
\* Repeatable, the contents of the numbered files of a Persistent
Kept(o, prompt) ==
    IF objs[o].kind = "Repeatable" THEN RepeatableLoad(State, o, prompt_id(prompt))
    ELSE Files(o, prompt)

\* C11 (a new cursor starts at position 0): a pull on a cache cursor that has
\* not been pulled before, when the store keeps a value for the prompt, returns
\* the value kept at position 0 and fetches nothing, wherever other cursors are.
C11_NewCursorStartsAtZero ==
    \A o \in Caches :
        (PulledOn(o) /\ last.pos = 0 /\ last.stored >= 1)
          => /\ last.res = Ok(Kept(o, last.prompt)[1])
             /\ NothingFetched

\* What is left of C11: the value kept at position 0 up to its line endings, and
\* from a Repeatable the value itself.
NewCursorUpToLineEndings ==
    \A o \in Caches :
        (PulledOn(o) /\ last.pos = 0 /\ last.stored >= 1)
          => /\ last.res = Ok(read_text(Kept(o, last.prompt)[1]))
             /\ objs[o].kind = "Repeatable" => last.res = Ok(Kept(o, last.prompt)[1])
             /\ NothingFetched

\* A cursor pulled at position 0 while another cursor of the cache stands at 2.
NewCursorBehindReached ==
    \E o \in Caches :
        /\ PulledOn(o) /\ last.pos = 0 /\ last.stored = 2 /\ last.res.tag = "ok"
        /\ \E n \in DOMAIN handles :
              iters[handles[n].it].base = o /\ iters[handles[n].it].current_index = 2

\* The one batch hint of the program
TheHint == CHOOSE b \in cfg.hints : TRUE

\* C12 (batching amortized through the cache): the cache c over the buffered
\* model m, every call made with the one hint b <= max_batch, has fetched K
\* values with ceil(K / b) answered _query calls, each of b completions: the
\* transport has delivered b * ceil(K / b) completions.
C12_AmortizedThroughCache ==
    cfg.topo = "amortized"
    => \A q \in Prompts :
          transport[cfg.who.m][q] = TheHint * Ceil(Len(fetched[cfg.who.c][q]), TheHint)

\* What is left of C12: it holds over a model the cache's Independent does not
\* pass through; over an OpenAICompatibleHTTPModel every fetch is a _query of
\* its own.
AmortizedUnlessPassedThrough ==
    cfg.topo = "amortized"
    => \A q \in Prompts :
          LET K == Len(fetched[cfg.who.c][q]) IN
          /\ objs[cfg.who.m].kind = "Buffered" => transport[cfg.who.m][q] = TheHint * Ceil(K, TheHint)
          /\ objs[cfg.who.m].kind = "HTTP" => transport[cfg.who.m][q] = TheHint * K

\* Over a model that is not passed through, three values fetched with hint 2
\* by two _query calls.
AmortizedReached ==
    /\ cfg.topo = "amortized" /\ objs[cfg.who.m].kind = "Buffered" /\ TheHint = 2
    /\ \E q \in Prompts : Len(fetched[cfg.who.c][q]) = 3 /\ transport[cfg.who.m][q] = 4

\* The values first returned at the positions of cache o are the completions the
\* transport of model m delivers, in order
DeliveredInOrder(o, m) ==
    \A q \in Prompts : \A j \in 1..Len(hist[o][q]) :
        hist[o][q][j] = Completion(objs[m].responses, q, j)

\* C13 (the batch hint does not change the values): the value at position j of
\* the sequence of r = Repeatable(m) is the j-th completion m's transport
\* delivers for the prompt, whatever hints sample and set_batch_size were given.
C13_HintsDoNotChangeValues ==
    cfg.topo = "pair" => DeliveredInOrder(cfg.who.r, cfg.who.m)

\* What is left of C13: it holds over a model the cache's Independent does not
\* pass through, for the cache and for the cache over a cache.
HintsDoNotChangeValuesUnlessPassedThrough ==
    (cfg.topo = "pair" /\ objs[cfg.who.m].kind = "Buffered")
        => /\ DeliveredInOrder(cfg.who.r, cfg.who.m)
           /\ DeliveredInOrder(cfg.who.rr, cfg.who.m2)

\* What is left of C13, for one sequence of a buffered model sampled without a
\* cache: its k-th pull returns the k-th completion delivered.
AmortizerDeliversInOrder ==
    \A n \in DOMAIN handles :
        (/\ cfg.topo = "buffered" /\ ~handles[n].failed
         /\ last.op = "next" /\ last.it = handles[n].it /\ last.res.tag = "ok")
            => last.res.v = Completion(objs[last.obj].responses, last.prompt, handles[n].pulls)

\* Over a model that is not passed through, a first value fetched by a _query
\* of 1 completion and, the hint changed, a second by a _query of 2.
HintsChangedReached ==
    /\ cfg.topo = "pair" /\ objs[cfg.who.m].kind = "Buffered"
    /\ PulledOn(cfg.who.r) /\ last.pos = 1 /\ last.res.tag = "ok"
    /\ Sizes(last.queries) = <<2>> /\ transport[cfg.who.m][last.prompt] = 3

\* C14 (on-disk contiguity): the numbers of the files of every fingerprint
\* directory are 0..k-1 for some k >= 0, when two processes run _store on the
\* same directory with their counting and writing steps interleaved.
C14_Contiguity ==
    \A d \in DOMAIN disk : DOMAIN disk[d] = 0..(Cardinality(DOMAIN disk[d]) - 1)

\* C14 witness: both processes counted the same number of files, one has
\* written its file and the other is about to write the same one.
C14_Witness ==
    /\ cfg.topo = "race" /\ cfg.recorded = 2
    /\ DOMAIN handles = {"s1", "s2"}
    /\ handles["s1"].pc = "counted" /\ handles["s1"].i = 2
    /\ handles["s2"].pc = "idle" /\ iters[handles["s2"].it].current_index = 3
    /\ Len(Files(cfg.who.c, iters[handles["s1"].it].prompt)) = 3
    /\ Len(fetched[cfg.who.c2][iters[handles["s1"].it].prompt]) = 1

\* What the store of cache o keeps for a prompt in state s (of its objs and disk)
KeptIn(s, o, prompt) ==
    IF s.objs[o].kind = "Repeatable" THEN RepeatableLoad(s, o, prompt_id(prompt))
    ELSE LET d  == prompt_dir(s, o, prompt_id(prompt))
             fs == list_numbered_files(s, d)
         IN  [k \in 1..Len(fs) |-> s.disk[d][fs[k]]]

\* Sequence b is a, or a with one element more at its end
SameOrAppended(a, b) ==
    \/ b = a
    \/ Len(b) = Len(a) + 1 /\ SubSeq(b, 1, Len(a)) = a

\* A call (sample, set_batch_size, next) leaves the store of every cache as it
\* was or with one value more at its end, and a pull that returns a fresh value
\* returns the value the store then keeps at the pull's position
AppendOnlyStep ==
    LET after == [objs |-> objs', disk |-> disk'] IN
    /\ \A o \in Caches : \A q \in Prompts :
          SameOrAppended(KeptIn(State, o, q), KeptIn(after, o, q))
    /\ (last'.op = "next" /\ last'.res.tag = "ok" /\ last'.pos >= last'.stored
        /\ last'.obj \in Caches)
          => /\ Len(KeptIn(after, last'.obj, last'.prompt)) = last'.pos + 1
             /\ KeptIn(after, last'.obj, last'.prompt)[last'.pos + 1] = last'.res.v

\* C15 (append-only store): pulls running one at a time, every sample,
\* set_batch_size, replay pull, fresh pull and failed pull leaves the stored
\* sequence of each fingerprint unchanged or extended by one element at its end,
\* and a fresh value is in the store at its position when the pull returns it.
C15_AppendOnly == [][AppendOnlyStep]_vars

\* C15 witness: a fresh pull at position 1 returned after a second file was
\* appended to a root another Persistent shares.
C15_Witness ==
    \E o \in Caches :
        /\ objs[o].kind = "Persistent"
        /\ PulledOn(o) /\ last.res.tag = "ok" /\ last.pos = 1 /\ last.stored = 1
        /\ Len(last.queries) = 1
        /\ Len(Kept(o, last.prompt)) = 2 /\ Kept(o, last.prompt)[2] = last.res.v

\* A pull on a cursor of a replication cache changes no file and no dict
ReplicationPullStep ==
    (last'.op = "next" /\ last'.obj \in Caches /\ objs[last'.obj].fail_on_miss)
        => /\ disk' = disk
           /\ \A o \in Caches : objs'[o].cache = objs[o].cache

\* C16 (replication mode performs no writes): every pull on a cursor of a
\* Persistent built with replication=True, replay or ReplicationCacheMiss,
\* whatever other cursors and replication caches over the root did before,
\* leaves the stored sequence of every fingerprint as it was.
C16_ReplicationNoWrites == [][ReplicationPullStep]_vars

\* C16 witness: over a root of two recorded values, a cursor of one replication
\* cache stands at position 2 and a cursor of another has just raised
\* ReplicationCacheMiss there.
C16_Witness ==
    /\ cfg.topo = "single" /\ cfg.recorded = 2
    /\ objs[cfg.who.c].fail_on_miss /\ objs[cfg.who.c2].fail_on_miss
    /\ DOMAIN handles = {"s1", "s2"}
    /\ iters[handles["s1"].it].base = cfg.who.c /\ iters[handles["s1"].it].current_index = 2
    /\ PulledOn(cfg.who.c2) /\ last.pos = 2 /\ last.res = CacheMiss
    /\ Len(Files(cfg.who.c2, last.prompt)) = 2

\* A pull during which _query raised: one _query call, the TransportError
\* returned to the caller, every buffer as it was, a new iterator's empty
FailedQueryStep ==
    (last'.op = "next" /\ Failed(last'.queries))
        => /\ last'.res.tag = "TransportError"
           /\ Len(last'.queries) = 1
           /\ \A it \in 1..Len(iters') :
                 iters'[it].buffer = IF it <= Len(iters) THEN iters[it].buffer ELSE <<>>

\* C17 (no retry of a failed query): a pull during which the primitive _query
\* fails issues that one _query call and no other, ends in the TransportError
\* for its caller, on a buffered iterator and through a cache and its
\* Independent alike, and leaves the buffers of the amortizer as they were.
C17_NoRetry == [][FailedQueryStep]_vars

\* C17 witness: a pull on a cursor of a Persistent at position 1, after a first
\* value was fetched, ended in TransportError.
C17_Witness ==
    \E o \in Caches :
        /\ objs[o].kind = "Persistent"
        /\ PulledOn(o) /\ last.pos = 1 /\ last.stored = 1
        /\ last.res.tag = "TransportError" /\ Failed(last.queries)
        /\ Len(fetched[o][last.prompt]) = 1

\* The cache of the other process
OtherCache(o) == IF o = cfg.who.c THEN cfg.who.c2 ELSE cfg.who.c

\* Position i (from 0) of cache o's sequence was returned fresh by a pull, and
\* the file of that number does not hold the value returned
Overwritten(o, q, i) ==
    /\ i < Len(hist[o][q]) /\ i < Len(Files(o, q))
    /\ Occurs(hist[o][q][i + 1], fetched[o][q])
    /\ Files(o, q)[i + 1] # hist[o][q][i + 1]

\* C18 (concurrent appenders race on the next free index): two processes
\* running _store on one fingerprint directory, the file of a position a pull
\* returned fresh exists, and when it does not hold the value returned it holds
\* a value the other process fetched and wrote there; the witness is the state
\* the claim says is reachable.
C18_OverwrittenOnlyByOtherProcess ==
    cfg.topo = "race"
    => \A o \in {cfg.who.c, cfg.who.c2} : \A q \in Prompts : \A j \in 1..Len(hist[o][q]) :
          /\ j <= Len(Files(o, q))
          /\ Overwritten(o, q, j - 1) => Occurs(Files(o, q)[j], fetched[OtherCache(o)][q])

\* C18 witness: both processes counted no file and wrote 0.md, each has returned
\* its own value from its pull at position 0, and the one file holds the value
\* of the last to write.
C18_Witness ==
    /\ cfg.topo = "race" /\ cfg.recorded = 0
    /\ \E q \in Prompts :
          /\ Len(fetched[cfg.who.c][q]) = 1 /\ Len(fetched[cfg.who.c2][q]) = 1
          /\ Len(hist[cfg.who.c][q]) = 1 /\ Len(hist[cfg.who.c2][q]) = 1
          /\ Len(Files(cfg.who.c, q)) = 1
          /\ Overwritten(cfg.who.c, q, 0)
          /\ Files(cfg.who.c, q)[1] = hist[cfg.who.c2][q][1]

\* Sequence a is a prefix of sequence b
Prefix(a, b) == Len(a) <= Len(b) /\ SubSeq(b, 1, Len(a)) = a

\* C19 (nested caches stay positionally aligned): o = Persistent(i, "b") over
\* i = Persistent(m, "a"), root "b" written through o only: the sequence o loads
\* for a prompt is a prefix of the sequence i loads, in every state, also after
\* the process restarted and pulling went on.
C19_NestedAligned ==
    cfg.topo = "restart"
    => \A q \in Prompts : Prefix(Stored(cfg.who.o, q), Stored(cfg.who.i, q))

\* What is left of C19: within one process, from an empty root "b", the
\* sequences as loaded are aligned.
NestedAlignedWithoutRestart ==
    \A q \in Prompts :
        NestedUntouched(q) => Prefix(Stored(cfg.who.o, q), Stored(cfg.who.i, q))

\* What the claim says of a call with frame f
RetryContract(f) ==
    /\ f.pulls <= f.retries
    /\ f.outcome \in {"running", "returned", "LLMOutputError"}
    /\ f.outcome = "returned"
         => /\ last.res.tag = "ok" /\ f.value = Parsed(last.res.v)
            /\ f.failures = f.pulls - 1
    /\ f.outcome = "LLMOutputError"
         => /\ f.failures = f.retries /\ f.pulls = f.retries
            /\ f.cause \in {"TransportError", "ReplicationCacheMiss", "LLMOutputError", "ValueError"}
            /\ last.res.tag # "ok" => f.cause = last.res.tag

\* C20 (query_retry): a call with attempt count r >= 0 pulls at most r samples,
\* ends at the first sample that parses and passes the validator with its
\* parsed value, or after r failed attempts with LLMOutputError carrying the
\* last failure, and in no other way.
C20_QueryRetry ==
    (cfg.topo = "retry" /\ "call" \in DOMAIN handles) => RetryContract(handles["call"])

\* What is left of C20: it holds of every call with r >= 1; a call with r = 0
\* pulls nothing and returns None.
QueryRetryForPositiveCount ==
    (cfg.topo = "retry" /\ "call" \in DOMAIN handles)
        => LET f == handles["call"] IN
           /\ f.retries >= 1 => RetryContract(f)
           /\ f.retries = 0 => f.outcome = "None" /\ f.pulls = 0

\* A call with r = 3 over a replication cache of two recorded values raised
\* LLMOutputError: two samples were refused, the third pull missed.
QueryRetryExhaustedReached ==
    /\ cfg.topo = "retry" /\ "call" \in DOMAIN handles
    /\ handles["call"].retries = 3 /\ handles["call"].outcome = "LLMOutputError"
    /\ handles["call"].cause = "ReplicationCacheMiss" /\ handles["call"].pulls = 3


\* A pull on a cache cursor, from the cursor's position and the sequence _load
\* returns before it: a pull that fails raised ReplicationCacheMiss or the inner
\* pull's error, and left the position and every store as they were; a pull at a
\* position the store holds returns the value there and advances by one; a pull
\* past the store, on a cache that fetches, with no failed _query, returns a
\* value and advances by one
FailedPullStep ==
    (last'.op = "next" /\ last'.obj \in Caches) =>
        LET it    == last'.it
            o     == iters[it].base
            pos   == iters[it].current_index
            cache == Stored(o, iters[it].prompt)
            after == [objs |-> objs', disk |-> disk']
        IN  /\ last'.res.tag # "ok" =>
                /\ last'.res.tag \in {"ReplicationCacheMiss", "TransportError"}
                /\ last'.res.tag = "ReplicationCacheMiss" <=> objs[o].fail_on_miss
                /\ iters'[it].current_index = pos
                /\ \A c \in Caches : \A q \in Prompts :
                      KeptIn(after, c, q) = KeptIn(State, c, q)
            /\ Len(cache) > pos =>
                /\ last'.res = Ok(cache[pos + 1])
                /\ iters'[it].current_index = pos + 1
            /\ (Len(cache) <= pos /\ ~objs[o].fail_on_miss /\ ~Failed(last'.queries)) =>
                /\ last'.res.tag = "ok"
                /\ iters'[it].current_index = pos + 1

\* C21 (a failed cache pull changes nothing): a pull on a cache cursor that ends
\* in ReplicationCacheMiss or in the error of the inner pull leaves the cursor's
\* position and the stored sequences unchanged, and a pull on the cursor succeeds
\* at the cursor's position when the store holds a value there or the inner
\* model delivers one.
C21_FailedPullChangesNothing == [][FailedPullStep]_vars

\* C21 witness: a cursor of the replication cache c asked for position 0 and got
\* nothing (c returned no value yet), it still stands at 0, and the other cache
\* over the root has just stored a value at position 0.
C21_Witness ==
    /\ cfg.topo = "single" /\ cfg.recorded = 0
    /\ objs[cfg.who.c].fail_on_miss /\ ~objs[cfg.who.c2].fail_on_miss
    /\ DOMAIN handles = {"s1", "s2"}
    /\ LET i == iters[handles["s1"].it] IN
        /\ i.base = cfg.who.c /\ i.current_index = 0
        /\ requested[cfg.who.c][i.prompt] = 1 /\ hist[cfg.who.c][i.prompt] = <<>>
        /\ PulledOn(cfg.who.c2) /\ last.prompt = i.prompt
        /\ last.res.tag = "ok" /\ last.pos = 0 /\ last.stored = 0
        /\ Len(Stored(cfg.who.c, i.prompt)) = 1


\* The entry of dict d at key k, or 0 when there is none
Entry(d, k) == IF k \in DOMAIN d THEN d[k] ELSE 0

\* A pull on a cursor of cache o for prompt p: every other cursor of o stands
\* where it stood; for every other prompt q, the store of every cache keeps what
\* it kept, every Independent remembers for q the iterator it remembered, and
\* every buffered iterator for q is as it was (its buffer and its batch size)
FrameStep ==
    (last'.op = "next" /\ last'.obj \in Caches) =>
        LET it    == last'.it
            o     == iters[it].base
            p     == iters[it].prompt
            after == [objs |-> objs', disk |-> disk']
        IN  /\ \A j \in 1..Len(iters) :
                  (j # it /\ iters[j].kind = "shared" /\ iters[j].base = o)
                      => /\ j <= Len(iters')
                         /\ iters'[j].current_index = iters[j].current_index
            /\ \A q \in FramePrompts \ {p} :
                  /\ \A c \in Caches : KeptIn(after, c, q) = KeptIn(State, c, q)
                  /\ \A x \in 1..Len(objs) :
                        Entry(objs'[x].inner_iters, prompt_id(q))
                            = Entry(objs[x].inner_iters, prompt_id(q))
                  /\ \A j \in 1..Len(iters) :
                        (iters[j].kind = "buffered" /\ iters[j].prompt = q)
                            => j <= Len(iters') /\ iters'[j] = iters[j]

\* C22 (frame of a pull): a pull on one cache cursor leaves the position of
\* every other cursor of that cache, for the same prompt or another, as it was,
\* and leaves as they were the stored sequence, the cursor the Independent
\* remembers and the buffer of the amortizer of every other prompt.
C22_FrameOfAPull == [][FrameStep]_vars

\* C22 witness: a pull for prompt "p" has just fetched a fresh value at position
\* 0 by a _query of two completions, while another cursor of the cache stands at
\* position 1 for prompt "q", the store keeps one value for "q", and the
\* iterator the Independent remembers for "q" holds one buffered completion.
C22_Witness ==
    /\ cfg.topo = "frame" /\ objs[cfg.who.m].kind = "Buffered"
    /\ DOMAIN handles = {"s1", "s2"}
    /\ iters[handles["s1"].it].prompt = "p"
    /\ iters[handles["s2"].it].prompt = "q" /\ iters[handles["s2"].it].current_index = 1
    /\ PulledOn(cfg.who.c) /\ last.it = handles["s1"].it
    /\ last.res.tag = "ok" /\ last.pos = 0 /\ last.stored = 0
    /\ Sizes(last.queries) = <<2>>
    /\ Len(KeptIn(State, cfg.who.c, "q")) = 1
    /\ LET ind == objs[cfg.who.c].inner IN
        /\ DOMAIN objs[ind].inner_iters = {prompt_id("p"), prompt_id("q")}
        /\ Len(iters[objs[ind].inner_iters[prompt_id("q")]].buffer) = 1

=============================================================================
